---- MODULE Spec2Model ----
(***************************************************************************)
(* Gondolin (Locket): the process lifecycle of run() in src/lib.rs.        *)
(*                                                                         *)
(* Several processes execute run() against one filesystem.  Every          *)
(* filesystem operation of run() is one atomic step of the process that    *)
(* performs it; the steps of different processes interleave freely.        *)
(* The filesystem holds the two project directories, the configuration     *)
(* file, the database files and the lock file.                             *)
(*                                                                         *)
(* Config, Database and net::serve are modules of the repository whose     *)
(* code is not part of src/lib.rs; their operators are written from the    *)
(* contracts of the specification (sections 4.2, 4.3 and 6).               *)
(***************************************************************************)
EXTENDS Naturals, FiniteSets, Sequences

\* ---- bounds --------------------------------------------------------------
NumProcs == 2       \* process slots that may execute run() concurrently
MaxRuns  == 2       \* invocations of run() in one behaviour
MaxNames == 2       \* distinct login-record names

Procs == 1 .. NumProcs
Names == 1 .. MaxNames

\* ---- filesystem layout ---------------------------------------------------
\* db_path = data_dir.join(DATABASE_FILE_NAME), the default database file.
DefaultDb == "data_dir/gondolin.db"
\* A database file the user named in the configuration instead.
OtherDb == "elsewhere/gondolin.db"
DbPaths == {DefaultDb, OtherDb}

Absent == "absent"

\* The content of a database file: missing, or a serialised collection.
NoFile == [present |-> FALSE, names |-> {}]
File(c) == [present |-> TRUE, names |-> c]

\* ---- the command line ----------------------------------------------------
Subcommands == {"Init", "New", "Query", "Remove", "Serve"}
\* No run() is executing in the process slot.
NoCommand == "none"

\* ---- positions of a process inside run() ---------------------------------
Terminal == {"Done", "Exit1", "Aborted"}

VARIABLES
  confDir,     \* conf_dir exists
  dataDir,     \* data_dir exists
  confFile,    \* gondolin.toml: Absent, or the database path it names
  disk,        \* database path -> NoFile, or File(the stored collection of names)
  lockFile,    \* gondolin.lck exists in the temporary directory
  pc,          \* process -> position in run()
  cmd,         \* process -> args.subcommand
  cfgPath,     \* process -> config.path
  db,          \* process -> in-memory collection of the Database
  runs,        \* invocations of run() so far
  \* history variables: they record what happened, no guard reads them
  holds,       \* process -> it created the lock file and has not removed it
  opened,      \* process -> the collection Database::open returned
  trace,       \* process -> lifecycle stages completed in the current run
  failedAt,    \* process -> the position at which the run failed, or "none"
  atDispatch,  \* process -> on-disk file content when its query was dispatched
  serial,      \* database path -> the successful runs' changes applied one after another
  lastDone     \* database path -> File(collection of the last successful run), NoFile once overwritten

vars == <<confDir, dataDir, confFile, disk, lockFile, pc, cmd, cfgPath, db, runs,
          holds, opened, trace, failedAt, atDispatch, serial, lastDone>>

fsVars == <<confDir, dataDir, confFile, disk, lockFile>>
ghostDb == <<serial, lastDone>>

Collections == SUBSET Names
FileStates == {NoFile} \cup {File(c) : c \in Collections}

\* ---- initial states ------------------------------------------------------
\* No process is running and no lock file is left.  Either the program was
\* set up before (both directories, a configuration file, and the database
\* it names holding some collection), or it was not (a project directory
\* may be missing, and there are no files yet).  Names are interchangeable,
\* so the stored collections of every size are represented by 1..k.
Installed ==
  /\ confDir = TRUE
  /\ dataDir = TRUE
  /\ confFile \in DbPaths
  /\ \E k \in 0 .. MaxNames :
        disk = [d \in DbPaths |-> IF d = confFile THEN File(1 .. k) ELSE NoFile]

NotInstalled ==
  /\ confDir \in BOOLEAN
  /\ dataDir \in BOOLEAN
  /\ confFile = Absent
  /\ disk = [d \in DbPaths |-> NoFile]

Init ==
  /\ (Installed \/ NotInstalled)
  /\ lockFile = FALSE
  /\ pc = [p \in Procs |-> "Idle"]
  /\ cmd = [p \in Procs |-> NoCommand]
  /\ cfgPath = [p \in Procs |-> DefaultDb]
  /\ db = [p \in Procs |-> {}]
  /\ runs = 0
  /\ holds = [p \in Procs |-> FALSE]
  /\ opened = [p \in Procs |-> {}]
  /\ trace = [p \in Procs |-> <<>>]
  /\ failedAt = [p \in Procs |-> "none"]
  /\ atDispatch = [p \in Procs |-> NoFile]
  /\ serial = disk
  /\ lastDone = [d \in DbPaths |-> NoFile]

\* ---- helpers -------------------------------------------------------------
\* run() is left at position `where`: args and the locals (config, db) are
\* dropped.
Return(p, where, failed) ==
  /\ pc' = [pc EXCEPT ![p] = where]
  /\ cmd' = [cmd EXCEPT ![p] = NoCommand]
  /\ failedAt' = [failedAt EXCEPT ![p] = failed]
  /\ cfgPath' = [cfgPath EXCEPT ![p] = DefaultDb]
  /\ db' = [db EXCEPT ![p] = {}]
  /\ opened' = [opened EXCEPT ![p] = {}]
  /\ atDispatch' = [atDispatch EXCEPT ![p] = NoFile]

\* `?` / bail!: the run returns Err from position pc[p].
Abort(p) == Return(p, "Aborted", pc[p])

Goto(p, where) ==
  /\ pc' = [pc EXCEPT ![p] = where]
  /\ UNCHANGED failedAt

Stage(p, s) == trace' = [trace EXCEPT ![p] = Append(@, s)]

\* Variant: the init branch is not taken and init falls through.
AfterDirs_NoBranch(p) == "OpenConfig"

\* if matches!(args.subcommand, C::Init) { ... return } else the normal branch
AfterDirs(p) == IF cmd[p] = "Init" THEN "InitConfig" ELSE "OpenConfig"

\* ---- run(): entry and directory resolution -------------------------------
\* A user starts the program with some subcommand.  Process slots are
\* interchangeable: the new process takes the slot of a terminated process
\* or the first slot never used.  A process that terminated without removing
\* its lock file keeps its slot.
Start(p, c) ==
  /\ \/ pc[p] \in Terminal
     \/ pc[p] = "Idle" /\ \A q \in Procs : q < p => pc[q] # "Idle"
  /\ ~holds[p]
  /\ runs < MaxRuns
  /\ runs' = runs + 1
  /\ pc' = [pc EXCEPT ![p] = "Resolve"]
  /\ cmd' = [cmd EXCEPT ![p] = c]
  /\ trace' = [trace EXCEPT ![p] = <<>>]
  /\ failedAt' = [failedAt EXCEPT ![p] = "none"]
  /\ UNCHANGED <<fsVars, cfgPath, db, holds, opened, atDispatch, ghostDb>>

\* ProjectDirs::from returns None, or a try_exists fails.
ResolveFail(p) ==
  /\ pc[p] = "Resolve"
  /\ Abort(p)
  /\ UNCHANGED <<fsVars, runs, holds, trace, ghostDb>>

\* Both try_exists answered: create both directories if either is missing.
\* Variant: the directories are created only when both are missing (&& for ||).
ResolveDirs_And(p) ==
  /\ pc[p] = "Resolve"
  /\ Goto(p, IF ~confDir /\ ~dataDir THEN "CreateConfDir" ELSE AfterDirs(p))
  /\ UNCHANGED <<fsVars, cmd, cfgPath, db, runs, holds, opened, trace, atDispatch, ghostDb>>

ResolveDirs(p) ==
  /\ pc[p] = "Resolve"
  /\ Goto(p, IF ~confDir \/ ~dataDir THEN "CreateConfDir" ELSE AfterDirs(p))
  /\ UNCHANGED <<fsVars, cmd, cfgPath, db, runs, holds, opened, trace, atDispatch, ghostDb>>

CreateConfDir(p) ==
  /\ pc[p] = "CreateConfDir"
  /\ confDir' = TRUE
  /\ Goto(p, "CreateDataDir")
  /\ UNCHANGED <<dataDir, confFile, disk, lockFile, cmd, cfgPath, db, runs, holds,
                 opened, trace, atDispatch, ghostDb>>

CreateConfDirFail(p) ==
  /\ pc[p] = "CreateConfDir"
  /\ Abort(p)
  /\ UNCHANGED <<fsVars, runs, holds, trace, ghostDb>>

CreateDataDir(p) ==
  /\ pc[p] = "CreateDataDir"
  /\ dataDir' = TRUE
  /\ Goto(p, AfterDirs(p))
  /\ UNCHANGED <<confDir, confFile, disk, lockFile, cmd, cfgPath, db, runs, holds,
                 opened, trace, atDispatch, ghostDb>>

CreateDataDirFail(p) ==
  /\ pc[p] = "CreateDataDir"
  /\ Abort(p)
  /\ UNCHANGED <<fsVars, runs, holds, trace, ghostDb>>

\* ---- Config and Database (contracts of sections 4.2 and 4.3) --------------
\* Config::init_interactive: the user is prompted for the configuration
\* values and a new configuration file naming the chosen database is written.
ConfigWritten(d) == confFile' = d

\* Database::init(path): fails if a file already exists at path.
CanInitDatabase(d) == ~disk[d].present
\* ... and produces an empty, persisted database.
DatabaseInitialised(d) == disk' = [disk EXCEPT ![d] = File({})]

\* Database::open(path): fails if the file is missing.
CanOpenDatabase(d) == disk[d].present
\* ... and deserialises the stored collection.
DatabaseOpened(d) == disk[d].names

\* Database::sync: serialises the in-memory collection over the backing file.
DatabaseSynced(d, c) == disk' = [disk EXCEPT ![d] = File(c)]

\* add: a record with the same name must not exist yet.
CanAdd(c, n) == n \notin c
Added(c, n) == c \cup {n}

\* remove: the record must exist.
CanRemove(c, n) == n \in c
Removed(c, n) == c \ {n}

\* The change a run made to the collection it opened, applied to another
\* collection: what the run added is added, what it removed is removed.
ApplyChange(before, after, onto) == (onto \cup (after \ before)) \ (before \ after)

\* ---- run(): the init branch (lib.rs 56-63) -------------------------------
InitConfig(p, d) ==
  /\ pc[p] = "InitConfig"
  /\ ConfigWritten(d)
  /\ Stage(p, "ConfigInitialized")
  /\ Goto(p, "InitDatabase")
  /\ UNCHANGED <<confDir, dataDir, disk, lockFile, cmd, cfgPath, db, runs, holds,
                 opened, atDispatch, ghostDb>>

InitConfigFail(p) ==
  /\ pc[p] = "InitConfig"
  /\ Abort(p)
  /\ UNCHANGED <<fsVars, runs, holds, trace, ghostDb>>

\* Variant: the init branch lacks its return and falls into the normal branch.
InitDatabase_NoReturn(p) ==
  /\ pc[p] = "InitDatabase"
  /\ CanInitDatabase(DefaultDb)
  /\ DatabaseInitialised(DefaultDb)
  /\ serial' = [serial EXCEPT ![DefaultDb] = File({})]
  /\ lastDone' = [lastDone EXCEPT ![DefaultDb] = NoFile]
  /\ Stage(p, "DatabaseInitialized")
  /\ Goto(p, "OpenConfig")
  /\ UNCHANGED <<confDir, dataDir, confFile, lockFile, cmd, cfgPath, db, runs, holds,
                 opened, atDispatch>>

\* Database::init(db_path): always the default path, whatever the config names.
InitDatabase(p) ==
  /\ pc[p] = "InitDatabase"
  /\ CanInitDatabase(DefaultDb)
  /\ DatabaseInitialised(DefaultDb)
  /\ serial' = [serial EXCEPT ![DefaultDb] = File({})]
  /\ lastDone' = [lastDone EXCEPT ![DefaultDb] = NoFile]
  /\ Stage(p, "DatabaseInitialized")
  /\ Return(p, "Done", "none")
  /\ UNCHANGED <<confDir, dataDir, confFile, lockFile, runs, holds>>

InitDatabaseFail(p) ==
  /\ pc[p] = "InitDatabase"
  /\ Abort(p)
  /\ UNCHANGED <<fsVars, runs, holds, trace, ghostDb>>

\* ---- run(): the normal branch (lib.rs 65-116) ----------------------------
\* Config::open_interactive on an existing configuration file.
OpenConfig(p) ==
  /\ pc[p] = "OpenConfig"
  /\ confFile # Absent
  /\ cfgPath' = [cfgPath EXCEPT ![p] = confFile]
  /\ Stage(p, "ConfigOpened")
  /\ Goto(p, "OpenDatabase")
  /\ UNCHANGED <<fsVars, cmd, db, runs, holds, opened, atDispatch, ghostDb>>

\* Config::open_interactive on a missing file falls back to initialisation.
OpenConfigInit(p, d) ==
  /\ pc[p] = "OpenConfig"
  /\ confFile = Absent
  /\ ConfigWritten(d)
  /\ cfgPath' = [cfgPath EXCEPT ![p] = d]
  /\ Stage(p, "ConfigOpened")
  /\ Goto(p, "OpenDatabase")
  /\ UNCHANGED <<confDir, dataDir, disk, lockFile, cmd, db, runs, holds, opened,
                 atDispatch, ghostDb>>

OpenConfigFail(p) ==
  /\ pc[p] = "OpenConfig"
  /\ Abort(p)
  /\ UNCHANGED <<fsVars, runs, holds, trace, ghostDb>>

\* let mut db = Database::open(config.path)?
OpenDatabase(p) ==
  /\ pc[p] = "OpenDatabase"
  /\ CanOpenDatabase(cfgPath[p])
  /\ db' = [db EXCEPT ![p] = DatabaseOpened(cfgPath[p])]
  /\ opened' = [opened EXCEPT ![p] = DatabaseOpened(cfgPath[p])]
  /\ Stage(p, "DatabaseOpened")
  /\ Goto(p, "AcquireLock")
  /\ UNCHANGED <<fsVars, cmd, cfgPath, runs, holds, atDispatch, ghostDb>>

\* Variant: the error of Database::open is noted and run() carries on with
\* an empty database.
OpenDatabaseFail_Continues(p) ==
  /\ pc[p] = "OpenDatabase"
  /\ failedAt' = [failedAt EXCEPT ![p] = "OpenDatabase"]
  /\ pc' = [pc EXCEPT ![p] = "AcquireLock"]
  /\ UNCHANGED <<fsVars, cmd, cfgPath, db, runs, holds, opened, trace, atDispatch, ghostDb>>

OpenDatabaseFail(p) ==
  /\ pc[p] = "OpenDatabase"
  /\ Abort(p)
  /\ UNCHANGED <<fsVars, runs, holds, trace, ghostDb>>

\* Variant: create(true) in place of create_new(true) opens an existing file too.
CreateNew_Create == TRUE

\* OpenOptions::new().create_new(true).write(true).open(&lck_path) succeeds
\* exactly when the file does not exist, and creates it.
CreateNew == ~lockFile

\* Variant: one lock per database file, a process is refused only while a
\* running process holds the lock for the same database.
AcquireLock_PerDatabase(p) ==
  /\ pc[p] = "AcquireLock"
  /\ ~\E q \in Procs : q # p /\ holds[q] /\ pc[q] \notin Terminal /\ cfgPath[q] = cfgPath[p]
  /\ lockFile' = TRUE
  /\ holds' = [holds EXCEPT ![p] = TRUE]
  /\ Stage(p, "LockAcquired")
  /\ Goto(p, "Dispatch")
  /\ UNCHANGED <<confDir, dataDir, confFile, disk, cmd, cfgPath, db, runs, opened,
                 atDispatch, ghostDb>>

AcquireLock(p) ==
  /\ pc[p] = "AcquireLock"
  /\ CreateNew
  /\ lockFile' = TRUE
  /\ holds' = [holds EXCEPT ![p] = TRUE]
  /\ Stage(p, "LockAcquired")
  /\ Goto(p, "Dispatch")
  /\ UNCHANGED <<confDir, dataDir, confFile, disk, cmd, cfgPath, db, runs, opened,
                 atDispatch, ghostDb>>

\* Variant: the message is printed but the process does not exit.
AlreadyRunning_Continues(p) ==
  /\ pc[p] = "AcquireLock"
  /\ ~CreateNew
  /\ Goto(p, "Dispatch")
  /\ UNCHANGED <<fsVars, cmd, cfgPath, db, runs, holds, opened, trace, atDispatch, ghostDb>>

\* Variant: AlreadyExists is propagated with bail! like the other errors.
AlreadyRunning_Bail(p) ==
  /\ pc[p] = "AcquireLock"
  /\ ~CreateNew
  /\ Abort(p)
  /\ UNCHANGED <<fsVars, runs, holds, trace, ghostDb>>

\* Variant: the process that found the lock file removes it before exiting.
AlreadyRunning_RemovesLock(p) ==
  /\ pc[p] = "AcquireLock"
  /\ ~CreateNew
  /\ lockFile' = FALSE
  /\ Return(p, "Exit1", pc[p])
  /\ UNCHANGED <<confDir, dataDir, confFile, disk, runs, holds, trace, ghostDb>>

\* ErrorKind::AlreadyExists => std::process::exit(1)
AlreadyRunning(p) ==
  /\ pc[p] = "AcquireLock"
  /\ ~CreateNew
  /\ Return(p, "Exit1", pc[p])
  /\ UNCHANGED <<fsVars, runs, holds, trace, ghostDb>>

\* _ => bail!("Failed to open the lockfile"): the file does not exist and
\* cannot be created.
AcquireLockFail(p) ==
  /\ pc[p] = "AcquireLock"
  /\ CreateNew
  /\ Abort(p)
  /\ UNCHANGED <<fsVars, runs, holds, trace, ghostDb>>

\* ---- run(): command dispatch (lib.rs 88-103) ----------------------------
\* Variant: run() goes from the dispatch straight to the lock release.
Dispatched_SkipSync(p) ==
  /\ Stage(p, "CommandDispatched")
  /\ Goto(p, "Release")

\* What every successful dispatch records and where it continues.
Dispatched(p) ==
  /\ Stage(p, "CommandDispatched")
  /\ Goto(p, "Sync")

\* Variant: the new record is written to the database file at once.
DispatchNew_WriteThrough(p, n) ==
  /\ pc[p] = "Dispatch"
  /\ cmd[p] = "New"
  /\ CanAdd(db[p], n)
  /\ db' = [db EXCEPT ![p] = Added(db[p], n)]
  /\ DatabaseSynced(cfgPath[p], Added(db[p], n))
  /\ Dispatched(p)
  /\ UNCHANGED <<confDir, dataDir, confFile, lockFile, cmd, cfgPath, runs, holds, opened,
                 atDispatch, ghostDb>>

\* C::New => db.add_new_interactive()?, the user names the new record.
DispatchNew(p, n) ==
  /\ pc[p] = "Dispatch"
  /\ cmd[p] = "New"
  /\ CanAdd(db[p], n)
  /\ db' = [db EXCEPT ![p] = Added(db[p], n)]
  /\ Dispatched(p)
  /\ UNCHANGED <<fsVars, cmd, cfgPath, runs, holds, opened, atDispatch, ghostDb>>

\* C::Query(name) => db.query_interactive(name), no Result and no `?`.
DispatchQuery(p) ==
  /\ pc[p] = "Dispatch"
  /\ cmd[p] = "Query"
  /\ atDispatch' = [atDispatch EXCEPT ![p] = disk[cfgPath[p]]]
  /\ Dispatched(p)
  /\ UNCHANGED <<fsVars, cmd, cfgPath, db, runs, holds, opened, ghostDb>>

\* C::Remove => db.remove_interactive()?, the user names the record.
DispatchRemove(p, n) ==
  /\ pc[p] = "Dispatch"
  /\ cmd[p] = "Remove"
  /\ CanRemove(db[p], n)
  /\ db' = [db EXCEPT ![p] = Removed(db[p], n)]
  /\ Dispatched(p)
  /\ UNCHANGED <<fsVars, cmd, cfgPath, runs, holds, opened, atDispatch, ghostDb>>

\* C::Serve => net::serve(&mut db, config.port, &lck_path)?, the clients of
\* the server may leave any collection behind.
DispatchServe(p, c) ==
  /\ pc[p] = "Dispatch"
  /\ cmd[p] = "Serve"
  /\ db' = [db EXCEPT ![p] = c]
  /\ Dispatched(p)
  /\ UNCHANGED <<fsVars, cmd, cfgPath, runs, holds, opened, atDispatch, ghostDb>>

\* The `?` of the New, Remove and Serve arms: the command returned Err
\* (duplicate name, no such record, the user cancelled, the server failed)
\* and run() returns at once.
DispatchFail(p) ==
  /\ pc[p] = "Dispatch"
  /\ cmd[p] \in {"New", "Remove", "Serve"}
  /\ Abort(p)
  /\ UNCHANGED <<fsVars, runs, holds, trace, ghostDb>>

\* ---- run(): sync and lock release (lib.rs 105-116) -----------------------
\* Variant: the database is written to db_path instead of config.path.
SyncDatabase_DefaultPath(p) ==
  /\ pc[p] = "Sync"
  /\ DatabaseSynced(DefaultDb, db[p])
  /\ serial' = [serial EXCEPT ![DefaultDb] =
                  File(ApplyChange(opened[p], db[p], @.names))]
  /\ lastDone' = [lastDone EXCEPT ![DefaultDb] = NoFile]
  /\ Stage(p, "DatabaseSynced")
  /\ Goto(p, "Release")
  /\ UNCHANGED <<confDir, dataDir, confFile, lockFile, cmd, cfgPath, db, runs, holds,
                 opened, atDispatch>>

\* db.sync()?
SyncDatabase(p) ==
  /\ pc[p] = "Sync"
  /\ DatabaseSynced(cfgPath[p], db[p])
  /\ serial' = [serial EXCEPT ![cfgPath[p]] =
                  File(ApplyChange(opened[p], db[p], @.names))]
  /\ lastDone' = [lastDone EXCEPT ![cfgPath[p]] = NoFile]
  /\ Stage(p, "DatabaseSynced")
  /\ Goto(p, "Release")
  /\ UNCHANGED <<confDir, dataDir, confFile, lockFile, cmd, cfgPath, db, runs, holds,
                 opened, atDispatch>>

\* Variant: the result of db.sync() is dropped and the run goes on to release.
SyncFail_Ignored(p) ==
  /\ pc[p] = "Sync"
  /\ Goto(p, "Release")
  /\ UNCHANGED <<fsVars, cmd, cfgPath, db, runs, holds, opened, trace, atDispatch, ghostDb>>

SyncFail(p) ==
  /\ pc[p] = "Sync"
  /\ Abort(p)
  /\ UNCHANGED <<fsVars, runs, holds, trace, ghostDb>>

\* fs::remove_file(lck_path) succeeds exactly when the file exists.
ReleaseLock(p) ==
  /\ pc[p] = "Release"
  /\ lockFile
  /\ lockFile' = FALSE
  /\ holds' = [holds EXCEPT ![p] = FALSE]
  /\ lastDone' = [lastDone EXCEPT ![cfgPath[p]] = File(db[p])]
  /\ Stage(p, "LockReleased")
  /\ Return(p, "Done", "none")
  /\ UNCHANGED <<confDir, dataDir, confFile, disk, runs, serial>>

\* Variant: NotFound is propagated with bail! like the other errors.
ReleaseNotFound_Bail(p) ==
  /\ pc[p] = "Release"
  /\ ~lockFile
  /\ Abort(p)
  /\ UNCHANGED <<fsVars, runs, holds, trace, ghostDb>>

\* ErrorKind::NotFound => std::process::exit(1)
ReleaseNotFound(p) ==
  /\ pc[p] = "Release"
  /\ ~lockFile
  /\ Return(p, "Exit1", pc[p])
  /\ UNCHANGED <<fsVars, runs, holds, trace, ghostDb>>

\* _ => bail!("Failed to remove the lockfile"): the file exists and cannot
\* be removed.
ReleaseFail(p) ==
  /\ pc[p] = "Release"
  /\ lockFile
  /\ Abort(p)
  /\ UNCHANGED <<fsVars, runs, holds, trace, ghostDb>>

Next ==
  \/ \E p \in Procs, c \in Subcommands : Start(p, c)
  \/ \E p \in Procs : ResolveFail(p)
  \/ \E p \in Procs : ResolveDirs(p)
  \/ \E p \in Procs : CreateConfDir(p)
  \/ \E p \in Procs : CreateConfDirFail(p)
  \/ \E p \in Procs : CreateDataDir(p)
  \/ \E p \in Procs : CreateDataDirFail(p)
  \/ \E p \in Procs, d \in DbPaths : InitConfig(p, d)
  \/ \E p \in Procs : InitConfigFail(p)
  \/ \E p \in Procs : InitDatabase(p)
  \/ \E p \in Procs : InitDatabaseFail(p)
  \/ \E p \in Procs : OpenConfig(p)
  \/ \E p \in Procs, d \in DbPaths : OpenConfigInit(p, d)
  \/ \E p \in Procs : OpenConfigFail(p)
  \/ \E p \in Procs : OpenDatabase(p)
  \/ \E p \in Procs : OpenDatabaseFail(p)
  \/ \E p \in Procs : AcquireLock(p)
  \/ \E p \in Procs : AlreadyRunning(p)
  \/ \E p \in Procs : AcquireLockFail(p)
  \/ \E p \in Procs, n \in Names : DispatchNew(p, n)
  \/ \E p \in Procs : DispatchQuery(p)
  \/ \E p \in Procs, n \in Names : DispatchRemove(p, n)
  \/ \E p \in Procs, c \in Collections : DispatchServe(p, c)
  \/ \E p \in Procs : DispatchFail(p)
  \/ \E p \in Procs : SyncDatabase(p)
  \/ \E p \in Procs : SyncFail(p)
  \/ \E p \in Procs : ReleaseLock(p)
  \/ \E p \in Procs : ReleaseFail(p)

Spec == Init /\ [][Next]_vars

\* ---- the same program when something else touches the lock file ----------
\* Somebody other than run() deletes gondolin.lck from the temporary directory.
LockVanishes ==
  /\ lockFile
  /\ lockFile' = FALSE
  /\ UNCHANGED <<confDir, dataDir, confFile, disk, pc, cmd, cfgPath, db, runs,
                 holds, opened, trace, failedAt, atDispatch, serial, lastDone>>

NextEnv ==
  \/ Next
  \/ LockVanishes
  \/ \E p \in Procs : ReleaseNotFound(p)

SpecEnv == Init /\ [][NextEnv]_vars

\* ---- properties ----------------------------------------------------------
InTrace(p, s) == \E i \in DOMAIN trace[p] : trace[p][i] = s

InitStages == <<"ConfigInitialized", "DatabaseInitialized">>
NormalStages == <<"ConfigOpened", "DatabaseOpened", "LockAcquired",
                  "CommandDispatched", "DatabaseSynced", "LockReleased">>

\* p takes a step of run() that leaves position `at`.
Leaves(p, at) == pc[p] = at /\ pc'[p] # at

\* C1: at most one process at a time is between its own successful exclusive
\* creation of the lock file and its own removal of it.
C1_MutualExclusion == \A p, q \in Procs : holds[p] /\ holds[q] => p = q

\* One process holds the lock while another one has reached its own attempt.
C1_Witness ==
  \E p, q \in Procs : p # q /\ holds[p] /\ pc[p] = "Sync" /\ pc[q] = "AcquireLock"

\* C2: a normal run that acquired the lock has removed the lock file by the
\* time it terminates, on every exit path.
C2_ReleasedOnEveryExit == \A p \in Procs : pc[p] \in Terminal => ~holds[p]

\* C3: once all runs have completed successfully, every database file holds
\* the result of applying the runs' changes one after another (no change of a
\* successful run is lost).
C3_NoLostUpdate ==
  (\A p \in Procs : pc[p] \in {"Idle", "Done"}) => \A d \in DbPaths : disk[d] = serial[d]

\* C4: a successful normal run has completed the stages config opened,
\* database opened, lock acquired, command dispatched, database synced, lock
\* released, once each and in this order.
C4_NormalRunOrder ==
  [][\A p \in Procs :
       (pc[p] # "Done" /\ pc'[p] = "Done" /\ cmd[p] # "Init") => trace'[p] = NormalStages]_vars

\* A normal run has completed.
C4_Witness == \E p \in Procs : pc[p] = "Done" /\ trace[p] = NormalStages

\* C5: lock acquisition is one non-blocking attempt.  An attempt made while
\* the lock file exists ends the process with exit status 1 in that very
\* step; a release removes the lock file, and an attempt made while the lock
\* file does not exist is never refused as already running and can succeed.
C5_SingleAttempt ==
  /\ [][\A p \in Procs :
          /\ (Leaves(p, "AcquireLock") /\ lockFile) => pc'[p] = "Exit1"
          /\ (Leaves(p, "AcquireLock") /\ ~lockFile) => pc'[p] \in {"Dispatch", "Aborted"}
          /\ (Leaves(p, "Release") /\ pc'[p] = "Done") => ~lockFile']_vars
  /\ [](\A p \in Procs : (pc[p] = "AcquireLock") => (ENABLED AcquireLock(p) <=> ~lockFile))
  /\ [](\A p \in Procs : (pc[p] = "AcquireLock" /\ lockFile) => ENABLED AlreadyRunning(p))

\* One process acquired and released the lock and another acquired it afterwards.
C5_Witness ==
  \E p, q \in Procs :
    p # q /\ pc[p] = "Done" /\ InTrace(p, "LockReleased") /\ holds[q] /\ pc[q] = "Dispatch"

\* C6: a process whose acquisition fails because the lock file exists
\* dispatches nothing, syncs nothing and removes nothing: its exit leaves the
\* filesystem, the lock file and the holder of the lock as they were.
C6_FailedAcquireTouchesNothing ==
  /\ [][\A p \in Procs :
          (Leaves(p, "AcquireLock") /\ lockFile) =>
             /\ UNCHANGED <<fsVars, holds, serial, lastDone>>
             /\ lockFile'
             /\ trace'[p] = <<"ConfigOpened", "DatabaseOpened">>]_vars
  /\ [](\A p \in Procs :
          (pc[p] = "Exit1" /\ failedAt[p] = "AcquireLock") =>
             ~InTrace(p, "CommandDispatched") /\ ~InTrace(p, "DatabaseSynced")
             /\ ~InTrace(p, "LockReleased") /\ ~holds[p])

\* The second process has exited with status 1 and the first still holds the lock.
C6_Witness ==
  \E p, q \in Procs :
    p # q /\ pc[p] = "Exit1" /\ failedAt[p] = "AcquireLock" /\ holds[q] /\ lockFile
    /\ pc[q] \in {"Dispatch", "Sync", "Release"}

\* C7: when the dispatched command fails after the lock was acquired, sync
\* and lock release have still run when the process terminates.
C7_CleanupAfterFailedCommand ==
  \A p \in Procs :
    (pc[p] = "Aborted" /\ failedAt[p] = "Dispatch") =>
       InTrace(p, "DatabaseSynced") /\ InTrace(p, "LockReleased")

\* C8: an init run initialises the configuration and then, only after that
\* succeeded, the database; it never reaches config open, database open, lock
\* acquisition or dispatch, and none of its steps changes the lock file.
C8_InitIsLockFree ==
  /\ [][\A p \in Procs :
          (cmd[p] = "Init" /\ pc'[p] # pc[p]) =>
             /\ lockFile' = lockFile /\ holds' = holds
             /\ (pc'[p] = "Done" => trace'[p] = InitStages)]_vars
  /\ [](\A p \in Procs :
          cmd[p] = "Init" =>
             /\ pc[p] \in {"Resolve", "CreateConfDir", "CreateDataDir", "InitConfig", "InitDatabase"}
             /\ (pc[p] = "InitDatabase" => trace[p] = <<"ConfigInitialized">>)
             /\ ~holds[p])

\* An init run has completed while another process holds the lock.
C8_Witness ==
  \E p, q \in Procs : p # q /\ pc[p] = "Done" /\ trace[p] = InitStages /\ holds[q] /\ lockFile

\* C9: a query dispatch neither fails nor changes the in-memory collection,
\* and when a run that dispatched query terminates, the database file holds
\* what it held when the query was dispatched.
C9_QueryChangesNothing ==
  [][\A p \in Procs :
       cmd[p] = "Query" =>
         /\ Leaves(p, "Dispatch") => (pc'[p] = "Sync" /\ db'[p] = db[p])
         /\ (pc[p] \in {"Sync", "Release"} /\ pc'[p] \in Terminal) =>
               disk'[cfgPath[p]] = atDispatch[p]]_vars

\* C10: the next run that opens a database path starts with the collection
\* the last successful run on that path finished with, provided nothing has
\* written the file since.
C10_Durable ==
  [][\A q \in Procs :
       (Leaves(q, "OpenDatabase") /\ pc'[q] = "AcquireLock" /\ lastDone[cfgPath[q]].present) =>
          db'[q] = lastDone[cfgPath[q]].names]_vars

\* A query run has opened the database another run left behind, and finds the
\* record that run stored.
C10_Witness ==
  \E q \in Procs :
    /\ cmd[q] = "Query" /\ pc[q] = "AcquireLock"
    /\ lastDone[cfgPath[q]].present
    /\ db[q] = lastDone[cfgPath[q]].names
    /\ db[q] # {}
    /\ \E p \in Procs : p # q /\ pc[p] = "Done" /\ trace[p] = NormalStages

\* C11: a run that finds the lock file gone when it removes it ends with exit
\* status 1; a removal that fails for another reason ends the run with a
\* propagated error; in both cases the run's sync has completed before.
C11_ReleaseFailures ==
  [][\A p \in Procs :
       Leaves(p, "Release") =>
         /\ trace[p] = SubSeq(NormalStages, 1, 5)
         /\ ~lockFile => (pc'[p] = "Exit1" /\ failedAt'[p] = "Release")
         /\ (lockFile /\ pc'[p] # "Done") => (pc'[p] = "Aborted" /\ failedAt'[p] = "Release")]_vars

\* A run synced, found its lock file gone and exited with status 1.
C11_Witness ==
  \E p \in Procs :
    pc[p] = "Exit1" /\ failedAt[p] = "Release" /\ InTrace(p, "DatabaseSynced") /\ ~lockFile

NormalCommands == Subcommands \ {"Init"}

\* The positions of the normal branch, from config open to lock release.
NormalPositions ==
  {"OpenConfig", "OpenDatabase", "AcquireLock", "Dispatch", "Sync", "Release"}

\* C12: in a normal run only the sync step writes a database file: no other
\* step of the run, and no failing step, changes any database file, so a run
\* that aborts before sync has not modified the database.
C12_OnlySyncWrites ==
  [][\A p \in Procs :
       (cmd[p] \in NormalCommands /\ pc'[p] # pc[p] /\ disk' # disk) =>
          /\ pc[p] = "Sync" /\ pc'[p] = "Release"
          /\ \A d \in DbPaths : d # cfgPath[p] => disk'[d] = disk[d]]_vars

\* A run was aborted by its command after another run's sync, and the file
\* still holds what that sync wrote.
C12_Witness ==
  \E p \in Procs, d \in DbPaths :
    /\ pc[p] = "Aborted" /\ failedAt[p] = "Dispatch"
    /\ lastDone[d].present /\ disk[d] = lastDone[d]

\* C13: a normal run that is dispatching its command or syncing has created
\* the lock file in this run and has not removed it, and the file exists.
C13_LockCoversCommand ==
  \A p \in Procs :
    pc[p] \in {"Dispatch", "Sync"} =>
      /\ holds[p] /\ lockFile
      /\ InTrace(p, "LockAcquired") /\ ~InTrace(p, "LockReleased")

\* A serve run is dispatching under its lock while another process waits at
\* its own acquisition.
C13_Witness ==
  \E p, q \in Procs :
    p # q /\ pc[p] = "Dispatch" /\ cmd[p] = "Serve" /\ holds[p] /\ pc[q] = "AcquireLock"

\* The stages a run has completed when it fails at a position.
StagesBefore(at) ==
  CASE at = "InitDatabase" -> <<"ConfigInitialized">>
    [] at = "OpenDatabase" -> SubSeq(NormalStages, 1, 1)
    [] at = "AcquireLock"  -> SubSeq(NormalStages, 1, 2)
    [] at = "Dispatch"     -> SubSeq(NormalStages, 1, 3)
    [] at = "Sync"         -> SubSeq(NormalStages, 1, 4)
    [] at = "Release"      -> SubSeq(NormalStages, 1, 5)
    [] OTHER               -> <<>>

\* C14: a failing step ends the run: the run has completed exactly the stages
\* before the failing position and executes nothing after it.  A failure
\* before the acquisition leaves no lock file of this run, a failed
\* acquisition dispatches nothing, a failed sync removes no lock file.
C14_FailureAborts ==
  /\ [](\A p \in Procs :
          /\ (failedAt[p] # "none") <=> (pc[p] \in {"Aborted", "Exit1"})
          /\ (failedAt[p] # "none") =>
                /\ trace[p] = StagesBefore(failedAt[p])
                /\ holds[p] <=> (failedAt[p] \in {"Dispatch", "Sync", "Release"})
                /\ holds[p] => lockFile)
  /\ [][\A p \in Procs :
          (pc[p] \in Terminal /\ pc'[p] # pc[p]) => (pc'[p] = "Resolve" /\ UNCHANGED fsVars)]_vars

\* A run whose sync failed has terminated and its lock file is still there.
C14_Witness ==
  \E p \in Procs : pc[p] = "Aborted" /\ failedAt[p] = "Sync" /\ holds[p] /\ lockFile

\* C15: control is never at a position of the normal branch with the init
\* subcommand, so the Init arm of the dispatch is never taken.
C15_InitArmUnreachable ==
  \A p \in Procs : pc[p] \in NormalPositions => cmd[p] \in NormalCommands

\* A normal run is at the dispatch after an init run has completed.
C15_Witness ==
  \E p, q \in Procs :
    p # q /\ pc[p] = "Dispatch" /\ cmd[p] = "New" /\ pc[q] = "Done" /\ trace[q] = InitStages

\* ---- the same program when the user keeps two databases -------------------
\* Database files exist at both paths and the configuration names one of them.
InstalledTwoDbs ==
  /\ confDir = TRUE
  /\ dataDir = TRUE
  /\ confFile \in DbPaths
  /\ \E k \in 0 .. MaxNames :
        disk = [d \in DbPaths |-> IF d = confFile THEN File(1 .. k) ELSE File({})]

InitTwoDbs ==
  /\ (InstalledTwoDbs \/ NotInstalled)
  /\ lockFile = FALSE
  /\ pc = [p \in Procs |-> "Idle"]
  /\ cmd = [p \in Procs |-> NoCommand]
  /\ cfgPath = [p \in Procs |-> DefaultDb]
  /\ db = [p \in Procs |-> {}]
  /\ runs = 0
  /\ holds = [p \in Procs |-> FALSE]
  /\ opened = [p \in Procs |-> {}]
  /\ trace = [p \in Procs |-> <<>>]
  /\ failedAt = [p \in Procs |-> "none"]
  /\ atDispatch = [p \in Procs |-> NoFile]
  /\ serial = disk
  /\ lastDone = [d \in DbPaths |-> NoFile]

\* The user edits gondolin.toml to name the other database.
ConfigEdited ==
  /\ confFile # Absent
  /\ \E d \in DbPaths \ {confFile} : confFile' = d
  /\ UNCHANGED <<confDir, dataDir, disk, lockFile, pc, cmd, cfgPath, db, runs,
                 holds, opened, trace, failedAt, atDispatch, serial, lastDone>>

NextTwoDbs ==
  \/ Next
  \/ ConfigEdited

SpecTwoDbs == InitTwoDbs /\ [][NextTwoDbs]_vars

\* C16: the lock path does not depend on the database: a process that
\* attempts the acquisition while a running process holds the lock for a
\* different database file exits with status 1.
C16_OneLockForAllDatabases ==
  [][\A p, q \in Procs :
       (/\ Leaves(p, "AcquireLock")
        /\ q # p /\ holds[q] /\ pc[q] \in {"Dispatch", "Sync", "Release"}
        /\ cfgPath[q] # cfgPath[p]) =>
          (pc'[p] = "Exit1" /\ failedAt'[p] = "AcquireLock" /\ UNCHANGED <<lockFile, holds>>)]_vars

\* A process that opened one database attempts the acquisition while the
\* process holding the lock works on the other database.
C16_Witness ==
  \E p, q \in Procs :
    /\ p # q /\ pc[p] = "AcquireLock" /\ lockFile
    /\ holds[q] /\ pc[q] \in {"Dispatch", "Sync", "Release"}
    /\ cfgPath[q] # cfgPath[p]

\* C17: every step that removes the lock file is taken by a run that created
\* the lock file itself, has completed its sync and has not released before;
\* at that step the database file the run wrote holds exactly the run's
\* in-memory collection.
C17_ReleaseAfterSync ==
  [][(lockFile /\ ~lockFile') =>
       \E p \in Procs :
         /\ pc[p] = "Release" /\ pc'[p] = "Done"
         /\ holds[p] /\ ~holds'[p]
         /\ \A q \in Procs \ {p} : pc'[q] = pc[q] /\ ~holds[q]
         /\ trace[p] = StagesBefore("Release")
         /\ trace'[p] = NormalStages
         /\ disk[cfgPath[p]] = File(db[p])]_vars

\* A run has released the lock and the database file still holds the
\* non-empty collection the run synced.
C17_Witness ==
  \E p \in Procs, d \in DbPaths :
    /\ pc[p] = "Done" /\ ~holds[p] /\ ~lockFile
    /\ trace[p] = NormalStages
    /\ lastDone[d].present /\ lastDone[d].names # {}
    /\ disk[d] = lastDone[d]

\* Positions of run() after directory resolution.
PastResolution == {"InitConfig", "InitDatabase"} \cup NormalPositions

\* C18 as stated: when a directory is missing the creation of both is
\* attempted, the configuration directory first; when both exist neither is
\* created; a run past directory resolution finds both directories.
C18_BothAttempted ==
  [][\A p \in Procs :
       /\ (Leaves(p, "Resolve") /\ pc'[p] # "Aborted") =>
            /\ pc'[p] = (IF ~confDir \/ ~dataDir THEN "CreateConfDir" ELSE AfterDirs(p))
            /\ UNCHANGED <<confDir, dataDir>>
       /\ Leaves(p, "CreateConfDir") => pc'[p] = "CreateDataDir"
       /\ (pc'[p] \in PastResolution) => (confDir' /\ dataDir')]_vars

\* C18, amended: when a directory is missing the creation of the
\* configuration directory is attempted first and that of the data directory
\* only after it succeeded, a failed creation ends the run; when both exist
\* neither is created; a run past directory resolution finds both directories.
C18_DirectoriesInLockstep ==
  [][\A p \in Procs :
       /\ (Leaves(p, "Resolve") /\ pc'[p] # "Aborted") =>
            /\ pc'[p] = (IF ~confDir \/ ~dataDir THEN "CreateConfDir" ELSE AfterDirs(p))
            /\ UNCHANGED <<confDir, dataDir>>
       /\ Leaves(p, "CreateConfDir") =>
            \/ pc'[p] = "CreateDataDir" /\ confDir' /\ UNCHANGED dataDir
            \/ pc'[p] = "Aborted" /\ UNCHANGED <<confDir, dataDir>>
       /\ Leaves(p, "CreateDataDir") =>
            \/ pc'[p] = AfterDirs(p) /\ confDir' /\ dataDir'
            \/ pc'[p] = "Aborted" /\ UNCHANGED <<confDir, dataDir>>
       /\ (pc'[p] \in PastResolution) => (confDir' /\ dataDir')]_vars

\* The configuration directory has been created and the creation of the
\* missing data directory is about to be attempted.
C18_Witness ==
  \E p \in Procs : pc[p] = "CreateDataDir" /\ confDir /\ ~dataDir
====
